---------------------------- MODULE Spec2Model ----------------------------
(***************************************************************************)
(* A model of src/src/quadtree.rs: a point quadtree with insert, subdivide *)
(* and range search, driven the way main() drives it (a run of inserts,    *)
(* then one search and one naive_search with the same boundary).           *)
(*                                                                         *)
(* Coordinates.  The program computes with f64.  The model counts every    *)
(* coordinate in units of the f64 spacing at the scale of the boundary, so *)
(* a coordinate is a natural number and the only operation that rounds,    *)
(* (x1 + x2) / 2.0, is modelled with IEEE 754 round-to-nearest-even (see   *)
(* midpoint).  Comparisons are exact, as they are in f64.                  *)
(*                                                                         *)
(* The tree.  A Quadtree value owns its four Option<Box<Quadtree>> fields; *)
(* the model keeps the whole tree as a function from paths to nodes.  The  *)
(* root is the empty path, the child fields of node n are the paths n \o   *)
(* <<1>> .. n \o <<4>>, and a field is None when its path is not in the    *)
(* domain of the function.                                                 *)
(*                                                                         *)
(* The stack.  insert and subdivide call each other recursively.  A Rust   *)
(* thread has a finite stack and aborts the process when it is exhausted;  *)
(* StackLimit is the number of nested insert frames the stack holds.       *)
(***************************************************************************)
EXTENDS Integers, Sequences, FiniteSets, TLC

VARIABLES
    quadtree,      \* main: let mut quadtree (path -> node)
    points,        \* main: let mut points: Vec<Point>
    pc,            \* position of main: "populate", "searched", "done", "aborted"
    arg,           \* the point passed to the last insert call
    ret,           \* what the last insert call returned
    fell,          \* the last insert call reached the final `false` of insert
    frames,        \* deepest nesting of insert frames in the last insert call
    wreck,         \* the tree an insert call was working on when the stack gave out
    query,         \* the boundary passed to search and naive_search
    quad_result,   \* what search returned
    naive_result,  \* what naive_search returned
    search_frames  \* deepest nesting of search frames in the last search call

vars == <<quadtree, points, pc, arg, ret, fell, frames, wreck, query,
          quad_result, naive_result, search_frames>>

-----------------------------------------------------------------------------
(* Bounds of the model *)

\* number of insert calls main makes (total_points)
MaxInserts == 4

\* number of nested insert frames the thread's stack holds
StackLimit == 8

\* const MAX_CAPACITY, scaled down from 100 so that a leaf fills within MaxInserts
MAX_CAPACITY == 2

-----------------------------------------------------------------------------
(* Values *)

Boundary(x1, x2, y1, y2) == [x1 |-> x1, x2 |-> x2, y1 |-> y1, y2 |-> y2]

\* the boundaries a root is created with: a square, and one of zero width
RootBoundaries == {Boundary(0, 4, 0, 4), Boundary(2, 2, 0, 4)}

\* the points main generates: a point for each quadrant of the square root,
\* points on its midlines and on those of its children, and one point outside
\* every root
GeneratedPoints == {<<3, 1>>, <<2, 1>>, <<2, 2>>, <<2, 3>>, <<3, 3>>, <<5, 2>>}

\* the boundaries main searches with
SearchBoundaries ==
    {Boundary(0, 4, 0, 4), Boundary(2, 2, 2, 2), Boundary(0, 2, 0, 1),
     Boundary(2, 3, 3, 4)}

NoPoint == <<0, 0>>
NoBoundary == Boundary(0, 0, 0, 0)

Max(a, b) == IF a >= b THEN a ELSE b

-----------------------------------------------------------------------------
(* Boundary predicates *)

\* contains without its test against boundary.x2
contains_no_upper_x(boundary, point) ==
    /\ point[1] >= boundary.x1
    /\ point[2] >= boundary.y1
    /\ point[2] <= boundary.y2

\* contains without its test against boundary.y2
contains_no_upper_y(boundary, point) ==
    /\ point[1] >= boundary.x1
    /\ point[1] <= boundary.x2
    /\ point[2] >= boundary.y1

\* fn contains: all four edges belong to the boundary
contains(boundary, point) ==
    /\ point[1] >= boundary.x1
    /\ point[1] <= boundary.x2
    /\ point[2] >= boundary.y1
    /\ point[2] <= boundary.y2

\* intersects with rectangles that only touch taken as disjoint
intersects_strict(boundary_1, boundary_2) ==
    /\ boundary_1.x1 < boundary_2.x2
    /\ boundary_1.x2 > boundary_2.x1
    /\ boundary_1.y1 < boundary_2.y2
    /\ boundary_1.y2 > boundary_2.y1

\* fn intersects: rectangles that touch intersect
intersects(boundary_1, boundary_2) ==
    /\ boundary_1.x1 <= boundary_2.x2
    /\ boundary_1.x2 >= boundary_2.x1
    /\ boundary_1.y1 <= boundary_2.y2
    /\ boundary_1.y2 >= boundary_2.y1

-----------------------------------------------------------------------------
(* Nodes *)

\* create_quad_tree, and the four struct literals of subdivide: an empty leaf
new_leaf(boundary) == [boundary |-> boundary, points |-> <<>>]

create_quad_tree(boundary) == (<<>> :> new_leaf(boundary))

top_left_child(n) == n \o <<1>>
bottom_left_child(n) == n \o <<2>>
top_right_child(n) == n \o <<3>>
bottom_right_child(n) == n \o <<4>>

is_none(t, c) == c \notin DOMAIN t

\* the children tried from the last to the first
children_reversed(n) ==
    <<bottom_right_child(n), top_right_child(n), bottom_left_child(n),
      top_left_child(n)>>

\* the order in which insert tries the children
insert_order(n) ==
    <<top_left_child(n), bottom_left_child(n), top_right_child(n),
      bottom_right_child(n)>>

\* let mut child_nodes = [...] of subdivide
child_nodes(n) ==
    <<top_left_child(n), bottom_left_child(n), top_right_child(n),
      bottom_right_child(n)>>

\* (a + a) / 2.0, the lower edge where the midpoint was meant
midpoint_low(a, b) == a

\* (a + b) / 2.0: the sum is exact when it is even in units of the spacing and
\* rounds to the nearest even multiple of two units otherwise; the halving
\* is exact
midpoint(a, b) ==
    LET s == a + b
        lo == s \div 2
    IN  IF s % 2 = 0 THEN lo
        ELSE IF lo % 2 = 0 THEN lo ELSE lo + 1

\* quadrants that keep the midlines to the top-left: the others start one
\* unit past them
child_boundaries_gap(b) ==
    LET mid_x == midpoint(b.x1, b.x2)
        mid_y == midpoint(b.y1, b.y2)
    IN  <<Boundary(b.x1, mid_x, b.y1, mid_y),
          Boundary(b.x1, mid_x, mid_y + 1, b.y2),
          Boundary(mid_x + 1, b.x2, b.y1, mid_y),
          Boundary(mid_x + 1, b.x2, mid_y + 1, b.y2)>>

\* the boundaries of the four children subdivide creates, in child_nodes order
child_boundaries(b) ==
    LET x1 == b.x1
        x2 == b.x2
        y1 == b.y1
        y2 == b.y2
        mid_x == midpoint(x1, x2)
        mid_y == midpoint(y1, y2)
    IN  <<Boundary(x1, mid_x, y1, mid_y),
          Boundary(x1, mid_x, mid_y, y2),
          Boundary(mid_x, x2, y1, mid_y),
          Boundary(mid_x, x2, mid_y, y2)>>

\* node.points.push(point)
push(t, n, point) == [t EXCEPT ![n].points = Append(@, point)]

\* the buffer left as it is
keep_points(t, n) == t

\* node.points = Vec::new() at the end of subdivide
clear_points(t, n) == [t EXCEPT ![n].points = <<>>]

\* a leaf takes the point however many it holds
takes_any_leaf(t, n) == is_none(t, top_left_child(n))

\* a leaf takes the point while it holds MAX_CAPACITY or fewer
has_room_off_by_one(t, n) ==
    Len(t[n].points) <= MAX_CAPACITY /\ is_none(t, top_left_child(n))

\* the guard of insert's second `if`: the node takes the point itself
has_room(t, n) ==
    Len(t[n].points) < MAX_CAPACITY /\ is_none(t, top_left_child(n))

-----------------------------------------------------------------------------
(* insert and subdivide *)

\* what a call hands back: the tree it leaves, its return value, whether the
\* stack was exhausted below it, whether it reached insert's final `false`,
\* and the deepest insert frame below it
Outcome(t, ok, overflow, fellThrough, depth) ==
    [tree |-> t, ok |-> ok, overflow |-> overflow, fell |-> fellThrough,
     depth |-> depth]

After(first, then) ==
    [then EXCEPT !.fell = first.fell \/ then.fell,
                 !.depth = Max(first.depth, then.depth)]

RECURSIVE insert(_, _, _, _)
RECURSIVE insert_into_children(_, _, _, _, _)
RECURSIVE move_points(_, _, _, _, _)

\* the sequence of `if insert(child, point) { return true; }` of insert,
\* from the i-th child on, and the final `false`
insert_into_children(t, n, point, i, d) ==
    IF i > 4 THEN Outcome(t, FALSE, FALSE, TRUE, d)
    ELSE LET r == insert(t, insert_order(n)[i], point, d + 1)
         IN  IF r.overflow \/ r.ok THEN r
             ELSE After(r, insert_into_children(r.tree, n, point, i + 1, d))

\* the loop `for point in &node.points { for child_node in ... }` of
\* subdivide, from the k-th point and the c-th child on, and the final
\* node.points = Vec::new()
move_points(t, n, k, c, d) ==
    IF k > Len(t[n].points) THEN Outcome(clear_points(t, n), TRUE, FALSE, FALSE, d)
    ELSE IF c > 4 THEN move_points(t, n, k + 1, 1, d)
    ELSE LET r == insert(t, child_nodes(n)[c], t[n].points[k], d + 1)
         IN  IF r.overflow THEN r
             ELSE IF r.ok THEN After(r, move_points(r.tree, n, k + 1, 1, d))
             ELSE After(r, move_points(r.tree, n, k, c + 1, d))

subdivide(t, n, d) ==
    LET bs == child_boundaries(t[n].boundary)
        withChildren ==
            [c \in DOMAIN t \cup {child_nodes(n)[i] : i \in 1..4} |->
                IF c = top_left_child(n) THEN new_leaf(bs[1])
                ELSE IF c = bottom_left_child(n) THEN new_leaf(bs[2])
                ELSE IF c = top_right_child(n) THEN new_leaf(bs[3])
                ELSE IF c = bottom_right_child(n) THEN new_leaf(bs[4])
                ELSE t[c]]
    IN  move_points(withChildren, n, 1, 1, d)

insert(t, n, point, d) ==
    IF d > StackLimit THEN Outcome(t, FALSE, TRUE, FALSE, d)
    ELSE IF ~contains(t[n].boundary, point) THEN Outcome(t, FALSE, FALSE, FALSE, d)
    ELSE IF has_room(t, n) THEN Outcome(push(t, n, point), TRUE, FALSE, FALSE, d)
    ELSE LET s == IF is_none(t, top_left_child(n))
                  THEN subdivide(t, n, d)
                  ELSE Outcome(t, TRUE, FALSE, FALSE, d)
         IN  IF s.overflow THEN s
             ELSE After(s, insert_into_children(s.tree, n, point, 1, d))

-----------------------------------------------------------------------------
(* search and naive_search *)

RECURSIVE filter(_, _)
\* points.iter().filter(|&point| contains(boundary, *point)).cloned().collect()
filter(ps, boundary) ==
    IF ps = <<>> THEN <<>>
    ELSE (IF contains(boundary, Head(ps)) THEN <<Head(ps)>> ELSE <<>>)
            \o filter(Tail(ps), boundary)

Found(result, depth) == [result |-> result, depth |-> depth]

RECURSIVE search(_, _, _, _)
search(t, n, boundary, d) ==
    IF ~intersects(t[n].boundary, boundary) THEN Found(<<>>, d)
    ELSE IF is_none(t, top_left_child(n)) THEN Found(filter(t[n].points, boundary), d)
    ELSE LET a == search(t, top_left_child(n), boundary, d + 1)
             b == search(t, bottom_left_child(n), boundary, d + 1)
             c == search(t, top_right_child(n), boundary, d + 1)
             e == search(t, bottom_right_child(n), boundary, d + 1)
         IN  Found(a.result \o b.result \o c.result \o e.result,
                   Max(Max(a.depth, b.depth), Max(c.depth, e.depth)))

naive_search(ps, boundary) == filter(ps, boundary)

-----------------------------------------------------------------------------
(* main *)

Init ==
    /\ \E b \in RootBoundaries : quadtree = create_quad_tree(b)
    /\ points = <<>>
    /\ pc = "populate"
    /\ arg = NoPoint
    /\ ret = FALSE
    /\ fell = FALSE
    /\ frames = 0
    /\ wreck = <<>>
    /\ query = NoBoundary
    /\ quad_result = <<>>
    /\ naive_result = <<>>
    /\ search_frames = 0

\* one turn of the loop of main: points.push(point); insert(&mut quadtree, point).
\* A call that exhausts the stack aborts the process: nothing of the tree it
\* was working on is seen again, so the model leaves quadtree as it was.
Insert(point) ==
    /\ pc = "populate"
    /\ Len(points) < MaxInserts
    /\ LET r == insert(quadtree, <<>>, point, 1)
       IN  /\ points' = Append(points, point)
           /\ arg' = point
           /\ frames' = r.depth
           /\ fell' = r.fell
           /\ IF r.overflow
              THEN /\ pc' = "aborted"
                   /\ wreck' = r.tree
                   /\ UNCHANGED <<quadtree, ret>>
              ELSE /\ quadtree' = r.tree
                   /\ ret' = r.ok
                   /\ pc' = "populate"
                   /\ UNCHANGED wreck
    /\ UNCHANGED <<query, quad_result, naive_result, search_frames>>

\* search(&quadtree, &Boundary {...})
Search(boundary) ==
    /\ pc = "populate"
    /\ LET f == search(quadtree, <<>>, boundary, 1)
       IN  /\ quad_result' = f.result
           /\ search_frames' = f.depth
    /\ query' = boundary
    /\ pc' = "searched"
    /\ UNCHANGED <<quadtree, points, arg, ret, fell, frames, wreck,
                   naive_result>>

\* naive_search(&points, &Boundary {...}) with the boundary of the search
NaiveSearch ==
    /\ pc = "searched"
    /\ naive_result' = naive_search(points, query)
    /\ pc' = "done"
    /\ UNCHANGED <<quadtree, points, arg, ret, fell, frames, wreck, query,
                   quad_result, search_frames>>

Next ==
    \/ \E point \in GeneratedPoints : Insert(point)
    \/ \E boundary \in SearchBoundaries : Search(boundary)
    \/ NaiveSearch

Spec == Init /\ [][Next]_vars

-----------------------------------------------------------------------------
(* Vocabulary of the properties.  The rectangle predicates are stated here  *)
(* on their own, from the meaning of a closed rectangle, and not through    *)
(* contains and intersects.                                                 *)

InRect(b, p) == b.x1 <= p[1] /\ p[1] <= b.x2 /\ b.y1 <= p[2] /\ p[2] <= b.y2

\* two closed rectangles have a point in common
Overlap(a, b) ==
    \E x \in Max(a.x1, b.x1)..(IF a.x2 <= b.x2 THEN a.x2 ELSE b.x2) :
        \E y \in Max(a.y1, b.y1)..(IF a.y2 <= b.y2 THEN a.y2 ELSE b.y2) : TRUE

RootBoundary == quadtree[<<>>].boundary

Range(s) == {s[i] : i \in DOMAIN s}

Count(p, s) == Cardinality({i \in DOMAIN s : s[i] = p})

IsPrefix(a, n) == Len(a) <= Len(n) /\ SubSeq(n, 1, Len(a)) = a

Subtree(t, n) == {m \in DOMAIN t : IsPrefix(n, m)}

Children(n) == {n \o <<i>> : i \in 1..4}

IsLeaf(t, n) == Children(n) \cap DOMAIN t = {}

IsInternal(t, n) == Children(n) \subseteq DOMAIN t

RECURSIVE SumCount(_, _, _)
SumCount(S, t, p) ==
    IF S = {} THEN 0
    ELSE LET m == CHOOSE m \in S : TRUE
         IN  Count(p, t[m].points) + SumCount(S \ {m}, t, p)

\* how many times p is buffered in the subtree of n
StoredCount(t, n, p) == SumCount(Subtree(t, n), t, p)

RECURSIVE SumLen(_, _)
SumLen(S, t) ==
    IF S = {} THEN 0
    ELSE LET m == CHOOSE m \in S : TRUE
         IN  Len(t[m].points) + SumLen(S \ {m}, t)

\* how many points are buffered in the subtree of n
StoredTotal(t, n) == SumLen(Subtree(t, n), t)

RECURSIVE MaxLen(_)
MaxLen(S) ==
    IF S = {} THEN 0
    ELSE LET m == CHOOSE m \in S : TRUE
         IN  Max(Len(m), MaxLen(S \ {m}))

\* the number of levels of the tree: the nodes on its longest path from the root
Levels(t) == 1 + MaxLen(DOMAIN t)

\* the step is a call of insert
InsertStep == Len(points') = Len(points) + 1

\* the points of the run so far that the root boundary contains
Accepted == SelectSeq(points, LAMBDA p : InRect(RootBoundary, p))

AllInside == \A i \in DOMAIN points : InRect(RootBoundary, points[i])

-----------------------------------------------------------------------------
(* C1 *)

\* C1: when every inserted point lies inside the root boundary, the points
\* search returned are, as a set, the points naive_search returned for the same
\* boundary over the points inserted.
C1_SearchEqualsNaive ==
    (pc = "done" /\ AllInside) => Range(quad_result) = Range(naive_result)

\* a subdivided tree whose search returned several points in another order
\* than naive_search did
C1_Witness ==
    /\ pc = "done"
    /\ AllInside
    /\ IsInternal(quadtree, <<>>)
    /\ Len(quad_result) >= 3
    /\ quad_result # naive_result
    /\ Range(quad_result) = Range(naive_result)

-----------------------------------------------------------------------------
(* C2 *)

\* C2: after every insert of a point the root boundary contains, the call has
\* returned true without reaching its final `false`, and every search whose
\* boundary contains the point returns it once for each time it was inserted.
C2_InsertAlwaysReturnsTrue ==
    (points # <<>> /\ InRect(RootBoundary, arg)) =>
        /\ pc # "aborted"
        /\ ret = TRUE
        /\ ~fell
        /\ \A q \in SearchBoundaries :
              InRect(q, arg) =>
                  Count(arg, search(quadtree, <<>>, q, 1).result) = Count(arg, points)

-----------------------------------------------------------------------------
(* C3 *)

\* C3: an insert of a point outside the root boundary returns false and leaves
\* the tree as it was: the same nodes, the same buffers, the same result of
\* every search.
C3_RejectedInsertChangesNothing ==
    [][(InsertStep /\ ~InRect(RootBoundary, arg')) =>
          /\ pc' = "populate"
          /\ ret' = FALSE
          /\ quadtree' = quadtree
          /\ \A q \in SearchBoundaries :
                search(quadtree', <<>>, q, 1).result = search(quadtree, <<>>, q, 1).result
      ]_vars

\* a subdivided tree that has just rejected a point outside the root
C3_Witness ==
    /\ pc = "populate"
    /\ points # <<>>
    /\ points[Len(points)] = arg
    /\ ~InRect(RootBoundary, arg)
    /\ ret = FALSE
    /\ IsInternal(quadtree, <<>>)
    /\ StoredTotal(quadtree, <<>>) = Len(points) - 1

-----------------------------------------------------------------------------
(* C4 *)

PositiveRoot == RootBoundary.x1 < RootBoundary.x2 /\ RootBoundary.y1 < RootBoundary.y2

NoPairOverCapacity == \A p \in Range(points) : Count(p, points) <= MAX_CAPACITY

-----------------------------------------------------------------------------
(* C5 *)

\* every node is a leaf holding at most MAX_CAPACITY points or an internal
\* node holding none
LeafOrInternal(t) ==
    \A n \in DOMAIN t :
        \/ IsLeaf(t, n) /\ Len(t[n].points) <= MAX_CAPACITY
        \/ IsInternal(t, n) /\ t[n].points = <<>>

\* C5: in every state every node is a leaf (no child, at most MAX_CAPACITY
\* buffered points) or internal (four children, no buffered point), and a node
\* that is internal stays internal and buffers no point in any later state.
C5_LeafOrInternalForGood ==
    /\ LeafOrInternal(quadtree)
    /\ [][/\ LeafOrInternal(quadtree')
          /\ \A n \in DOMAIN quadtree :
                IsInternal(quadtree, n) =>
                    /\ n \in DOMAIN quadtree'
                    /\ IsInternal(quadtree', n)
                    /\ quadtree'[n].points = <<>>
         ]_vars

\* two generations of internal nodes over a leaf filled to capacity, routed
\* through by one more insert
C5_Witness ==
    /\ IsInternal(quadtree, <<>>)
    /\ \E n \in DOMAIN quadtree : n # <<>> /\ IsInternal(quadtree, n)
    /\ \E n \in DOMAIN quadtree :
          IsLeaf(quadtree, n) /\ Len(quadtree[n].points) = MAX_CAPACITY
    /\ Len(points) = MaxInserts

-----------------------------------------------------------------------------
(* C6 *)

\* C6: every buffered point lies within the boundary of the leaf that buffers
\* it and of every ancestor of that leaf; so every search boundary that
\* contains the point has a point in common with each of these boundaries, and
\* a subtree search prunes holds no point the search boundary contains.
C6_PointsWithinBoundaries ==
    \A n \in DOMAIN quadtree :
        \A i \in DOMAIN quadtree[n].points :
            \A k \in 0..Len(n) :
                LET p == quadtree[n].points[i]
                    ancestor == quadtree[SubSeq(n, 1, k)].boundary
                IN  /\ InRect(ancestor, p)
                    /\ \A q \in SearchBoundaries : InRect(q, p) => Overlap(ancestor, q)

\* a search boundary that prunes a subdivided, populated subtree below the root
\* while other subtrees hold points it contains
C6_Witness ==
    \E q \in SearchBoundaries :
        /\ \E n \in DOMAIN quadtree :
              /\ n # <<>>
              /\ IsInternal(quadtree, n)
              /\ StoredTotal(quadtree, n) > 0
              /\ ~Overlap(quadtree[n].boundary, q)
        /\ \E m \in DOMAIN quadtree :
              \E i \in DOMAIN quadtree[m].points : InRect(q, quadtree[m].points[i])

-----------------------------------------------------------------------------
(* C7 *)

\* the points of the plane the model looks at
Plane == (0..5) \X (0..5)

ChildBoundary(t, n, i) == t[n \o <<i>>].boundary

\* the children of n have the four boundaries cut at the midpoints of n's
QuadrantsOf(t, n) ==
    LET b == t[n].boundary
        mid_x == midpoint(b.x1, b.x2)
        mid_y == midpoint(b.y1, b.y2)
    IN  /\ ChildBoundary(t, n, 1) = Boundary(b.x1, mid_x, b.y1, mid_y)
        /\ ChildBoundary(t, n, 2) = Boundary(b.x1, mid_x, mid_y, b.y2)
        /\ ChildBoundary(t, n, 3) = Boundary(mid_x, b.x2, b.y1, mid_y)
        /\ ChildBoundary(t, n, 4) = Boundary(mid_x, b.x2, mid_y, b.y2)
        /\ b.x1 <= mid_x /\ mid_x <= b.x2
        /\ b.y1 <= mid_y /\ mid_y <= b.y2

\* some child, of the children of boundaries bs, contains p
InSomeChild(bs, p) ==
    InRect(bs[1], p) \/ InRect(bs[2], p) \/ InRect(bs[3], p) \/ InRect(bs[4], p)

\* two different children, of the children of boundaries bs, contain p
InTwoChildren(bs, p) ==
    \E i \in 1..3 : InRect(bs[i], p) /\ \E j \in (i + 1)..4 : InRect(bs[j], p)

ChildBoundaries(t, n) == [i \in 1..4 |-> ChildBoundary(t, n, i)]

\* C7 as claimed: the children of every internal node have the four quadrant
\* boundaries, every point of the node's rectangle is in a child's and every
\* point of a child's rectangle is in the node's, and no point is contained
\* in two different children.
C7_NoPointInTwoChildren ==
    \A n \in DOMAIN quadtree :
        IsInternal(quadtree, n) =>
            LET bs == ChildBoundaries(quadtree, n)
            IN  /\ QuadrantsOf(quadtree, n)
                /\ \A p \in Plane :
                      /\ InRect(quadtree[n].boundary, p) <=> InSomeChild(bs, p)
                      /\ ~InTwoChildren(bs, p)

\* C7 as amended: the children of every internal node have the four quadrant
\* boundaries, every point of the node's rectangle is in a child's and every
\* point of a child's rectangle is in the node's; a point is contained in two
\* different children only if it lies on the line x = mid_x or on the line
\* y = mid_y.
C7_QuadrantsShareOnlyMidlines ==
    \A n \in DOMAIN quadtree :
        IsInternal(quadtree, n) =>
            LET bs == ChildBoundaries(quadtree, n)
                b == quadtree[n].boundary
                mid_x == midpoint(b.x1, b.x2)
                mid_y == midpoint(b.y1, b.y2)
            IN  /\ QuadrantsOf(quadtree, n)
                /\ \A p \in Plane :
                      /\ InRect(b, p) <=> InSomeChild(bs, p)
                      /\ InTwoChildren(bs, p) => (p[1] = mid_x \/ p[2] = mid_y)

\* a root of positive width and height that has been subdivided, a child of
\* it that has been subdivided in turn, and a buffered point that two
\* children of the root contain
C7_Witness ==
    /\ PositiveRoot
    /\ IsInternal(quadtree, <<>>)
    /\ \E n \in DOMAIN quadtree : n # <<>> /\ IsInternal(quadtree, n)
    /\ \E m \in DOMAIN quadtree :
          \E k \in DOMAIN quadtree[m].points :
              InTwoChildren(ChildBoundaries(quadtree, <<>>), quadtree[m].points[k])

-----------------------------------------------------------------------------
(* C8 *)

One(p, q) == IF p = q THEN 1 ELSE 0

\* the points buffered below the children of n, counted per child
InChildren(t, n, p) ==
    StoredCount(t, n \o <<1>>, p) + StoredCount(t, n \o <<2>>, p)
        + StoredCount(t, n \o <<3>>, p) + StoredCount(t, n \o <<4>>, p)

\* C8: a leaf below capacity stays a leaf when a point is added to it; a leaf
\* that holds MAX_CAPACITY points becomes internal at the insert that brings it
\* one more point, and at no other step; an internal node never becomes
\* internal again; and when a leaf becomes internal, each point it buffered
\* (and the point that arrived) is buffered below exactly one of its children
\* and returned by a search of the node.  Hence a node is internal exactly
\* when more than MAX_CAPACITY points are stored below it.
C8_SplitsOnceOnOverflow ==
    [][/\ \A n \in DOMAIN quadtree :
             LET old == quadtree[n].points
             IN  /\ IsInternal(quadtree, n) => IsInternal(quadtree', n)
                 /\ (IsLeaf(quadtree, n) /\ Len(old) < MAX_CAPACITY) =>
                        IsLeaf(quadtree', n)
                 /\ (/\ IsLeaf(quadtree, n)
                     /\ Len(old) = MAX_CAPACITY
                     /\ StoredTotal(quadtree', n) > Len(old)) =>
                        IsInternal(quadtree', n)
                 /\ (IsLeaf(quadtree, n) /\ IsInternal(quadtree', n)) =>
                        /\ InsertStep
                        /\ Len(old) = MAX_CAPACITY
                        /\ InRect(quadtree[n].boundary, arg')
                        /\ quadtree'[n].points = <<>>
                        /\ \A p \in GeneratedPoints :
                              /\ InChildren(quadtree', n, p) = Count(p, old) + One(p, arg')
                              /\ Count(p, search(quadtree', n, quadtree[n].boundary, 1).result)
                                    = Count(p, old) + One(p, arg')
       /\ \A n \in DOMAIN quadtree' :
             IsInternal(quadtree', n) <=> StoredTotal(quadtree', n) > MAX_CAPACITY
      ]_vars

\* a node below the root that filled to capacity and was subdivided by the
\* next point that reached it, under a root subdivided before
C8_Witness ==
    /\ IsInternal(quadtree, <<>>)
    /\ \E n \in DOMAIN quadtree :
          /\ n # <<>>
          /\ IsInternal(quadtree, n)
          /\ StoredTotal(quadtree, n) = MAX_CAPACITY + 1
    /\ \E n \in DOMAIN quadtree :
          /\ n # <<>>
          /\ IsLeaf(quadtree, n)
          /\ Len(quadtree[n].points) = MAX_CAPACITY

-----------------------------------------------------------------------------
(* C9 *)

\* C9: on the path from the root to a buffered point, the child taken at every
\* internal node is the first one, in the order top-left, bottom-left,
\* top-right, bottom-right, whose boundary contains the point; and every point
\* is buffered once for each time it was inserted, never under two children.
C9_FirstChildInOrder ==
    /\ \A m \in DOMAIN quadtree :
          \A k \in DOMAIN quadtree[m].points :
              \A d \in 1..Len(m) :
                  \A j \in 1..(m[d] - 1) :
                      ~InRect(ChildBoundary(quadtree, SubSeq(m, 1, d - 1), j),
                              quadtree[m].points[k])
    /\ pc # "aborted" =>
          \A p \in GeneratedPoints :
              StoredCount(quadtree, <<>>, p) = Count(p, Accepted)

\* a point on the edge shared by two children of the root, buffered under the
\* earlier of the two, once by the redistribution of subdivide and once by an
\* insert into the root subdivided before
C9_Witness ==
    /\ PositiveRoot
    /\ IsInternal(quadtree, <<>>)
    /\ Len(Accepted) = MAX_CAPACITY + 2
    /\ \E p \in GeneratedPoints :
          /\ Count(p, points) = 2
          /\ points[Len(points)] = p
          /\ \E i \in 1..4 :
                /\ StoredCount(quadtree, <<i>>, p) = 2
                /\ \E j \in (i + 1)..4 : InRect(ChildBoundary(quadtree, <<>>, j), p)

-----------------------------------------------------------------------------
(* C10 *)

ZeroSizeRoot == RootBoundary.x1 = RootBoundary.x2 \/ RootBoundary.y1 = RootBoundary.y2

\* C10 as claimed: once more than MAX_CAPACITY points with identical
\* coordinates have been inserted, or more than MAX_CAPACITY points into a
\* root of zero width or height, the insert that overflowed the leaf has not
\* returned.
C10_OverflowNeverReturns ==
    (\/ \E p \in Range(points) : Count(p, points) > MAX_CAPACITY
     \/ ZeroSizeRoot /\ Len(Accepted) > MAX_CAPACITY) =>
        pc = "aborted"

\* C10 as amended: once more than MAX_CAPACITY points with identical
\* coordinates that the root boundary contains have been inserted, the insert
\* that overflowed the leaf has not returned: it recursed until the stack was
\* exhausted, and the node it had reached has the boundary of its parent.
C10_IdenticalPointsExhaustStack ==
    (\E p \in Range(points) :
        InRect(RootBoundary, p) /\ Count(p, points) > MAX_CAPACITY) =>
        /\ pc = "aborted"
        /\ frames > StackLimit
        /\ \E n \in DOMAIN wreck :
              /\ Len(n) = StackLimit
              /\ InRect(wreck[n].boundary, arg)
              /\ wreck[n].boundary = wreck[SubSeq(n, 1, Len(n) - 1)].boundary

\* the third copy of a point in a root of positive width and height
C10_Witness ==
    /\ pc = "aborted"
    /\ PositiveRoot
    /\ Count(arg, points) = MAX_CAPACITY + 1

=============================================================================
